---- MODULE Spec2Model ----
(***************************************************************************)
(* Model of src/app.py: the hospital-appointment web application.         *)
(*                                                                         *)
(* State: the three tables (User, Appointment, Prescription), the upload  *)
(* directory, the browser session (flask_login's remembered user id), the *)
(* outcome of the last finished request, and the requests that are in     *)
(* progress on the server's worker threads.                                *)
(*                                                                         *)
(* Rows never get deleted and every table has an autoincrement integer    *)
(* primary key, so a table is a sequence and a row's id is its index.     *)
(*                                                                         *)
(* Two specifications are given.  Spec runs every request handler to      *)
(* completion before the next one starts.  SpecConc lets the handlers     *)
(* that do more than one storage step (register, add_doctor,              *)
(* upload_prescription) interleave on the worker threads.                 *)
(***************************************************************************)
EXTENDS Naturals, Sequences, FiniteSets, TLC

VARIABLES users, appointments, prescriptions, files, session, resp, threads

vars == <<users, appointments, prescriptions, files, session, resp, threads>>

(***************************************************************************)
(* Bound and input sets.  MaxRows caps the rows the three tables hold     *)
(* together; ApptIds and PrescIds are the primary keys the Appointment    *)
(* and Prescription tables hand out.  File names are single path          *)
(* components.  The doctor_id form field arrives as the decimal text of a *)
(* number and the Integer column stores the number.                        *)
(***************************************************************************)
MaxRows == 4

Usernames == {"admin", "alice", "bob"}
Passwords == {"admin123", "pw"}
NewPasswords == {"pw"}
Times == {"10:00", "11:00"}
Actions == {"accept", "reject", "cancel"}
Filenames == {"", "report.pdf"}
Bytes == {"b1", "b2"}
\* request.method and request.files['file'] of an upload_prescription
\* request: a GET, a POST with no file selected, a POST with a file
Uploads ==
    {<<"GET", "", "">>, <<"POST", "", "">>}
       \cup {<<"POST", f, b>> : f \in Filenames \ {""}, b \in Bytes}
Threads == {"t1", "t2"}
DoctorIds == {2, 3}
ApptIds == {1, 2}
PrescIds == {1, 2}

Anonymous == 0
Idle == [pc |-> "idle"]

(***************************************************************************)
(* werkzeug.security.  A hash records the method and a digest that only   *)
(* the same password reproduces.                                           *)
(***************************************************************************)
generate_password_hash(password) ==
    [method |-> "pbkdf2:sha256", digest |-> <<"H", password>>]

\* faulty variant: every password is accepted
check_password_hash_any(pwhash, password) == TRUE

check_password_hash(pwhash, password) ==
    pwhash.digest = <<"H", password>>

(***************************************************************************)
(* Queries.                                                                *)
(***************************************************************************)
\* User.query.filter_by(username=...).first(): the id of the row, 0 for None.
FirstByUsername(us, username) ==
    IF \E i \in 1..Len(us) : us[i].username = username
    THEN CHOOSE i \in 1..Len(us) :
            /\ us[i].username = username
            /\ \A j \in 1..(i - 1) : us[j].username # username
    ELSE 0

\* User.query.filter_by(username=..., role='admin').first()
FirstAdminByUsername(us, username) ==
    IF \E i \in 1..Len(us) : us[i].username = username /\ us[i].role = "admin"
    THEN CHOOSE i \in 1..Len(us) :
            /\ us[i].username = username /\ us[i].role = "admin"
            /\ \A j \in 1..(i - 1) :
                  ~(us[j].username = username /\ us[j].role = "admin")
    ELSE 0

\* User.query.filter_by(role='admin').first() is not None
HasAdmin(us) == \E i \in 1..Len(us) : us[i].role = "admin"

\* current_user.role, for an authenticated caller
RoleOf(uid) == users[uid].role

(***************************************************************************)
(* Storage layer.  username is declared unique=True: an INSERT of a row   *)
(* whose username is already present raises IntegrityError and the table  *)
(* is left as it was.                                                      *)
(***************************************************************************)
\* faulty variant: the username column is not unique
NoUniqueConstraint(us, row) == FALSE

UsernameTaken(us, row) == \E i \in 1..Len(us) : us[i].username = row.username

InsertUser(us, row) == IF UsernameTaken(us, row) THEN us ELSE Append(us, row)

(***************************************************************************)
(* Rows built by the handlers.                                             *)
(***************************************************************************)
DefaultAdmin ==
    [username |-> "admin",
     password |-> generate_password_hash("admin123"),
     role |-> "admin"]

\* faulty variant: register stores the wrong role
PatientRowAsAdmin(username, password) ==
    [username |-> username,
     password |-> generate_password_hash(password),
     role |-> "admin"]

PatientRow(username, password) ==
    [username |-> username,
     password |-> generate_password_hash(password),
     role |-> "patient"]

DoctorRow(username, password) ==
    [username |-> username,
     password |-> generate_password_hash(password),
     role |-> "doctor"]

\* faulty variant: the time of the form is dropped
AppointmentRowFixedTime(patient_id, doctor_id, time) ==
    [patient_id |-> patient_id, doctor_id |-> doctor_id,
     time |-> "10:00", status |-> "pending"]

AppointmentRow(patient_id, doctor_id, time) ==
    [patient_id |-> patient_id, doctor_id |-> doctor_id,
     time |-> time, status |-> "pending"]

\* f"{appointment_id}_{file.filename}"
\* faulty variant: the appointment id is left out of the name
StoredNameNoId(appointment_id, filename) == <<filename>>

StoredName(appointment_id, filename) == <<appointment_id, "_", filename>>

PrescriptionRow(appointment_id, filename) ==
    [appointment_id |-> appointment_id,
     file_url |-> StoredName(appointment_id, filename)]

\* file.save(filepath): creates the file or replaces its content.
\* faulty variant: an existing file is kept
SaveFileKeepFirst(fs, name, bytes) ==
    IF name \in DOMAIN fs THEN fs
    ELSE [n \in DOMAIN fs \cup {name} |-> IF n = name THEN bytes ELSE fs[n]]

SaveFile(fs, name, bytes) ==
    [n \in DOMAIN fs \cup {name} |-> IF n = name THEN bytes ELSE fs[n]]

\* bool(file): a FileStorage is falsy when it carries no filename.
FilePresent(filename) == filename # ""

\* rows held by the database
Rows == Len(users) + Len(appointments) + Len(prescriptions)

(***************************************************************************)
(* Bootstrap at import time (also on every restart of the process).       *)
(***************************************************************************)
Bootstrapped(us) == IF HasAdmin(us) THEN us ELSE InsertUser(us, DefaultAdmin)

AllIdle == \A t \in Threads : threads[t] = Idle

Init ==
    /\ users = Bootstrapped(<< >>)
    /\ appointments = << >>
    /\ prescriptions = << >>
    /\ files = << >>
    /\ session = Anonymous
    /\ resp = <<"bootstrap", "ok">>
    /\ threads = [t \in Threads |-> Idle]

Restart ==
    /\ AllIdle
    /\ users' = Bootstrapped(users)
    /\ resp' = <<"bootstrap", "ok">>
    /\ UNCHANGED <<appointments, prescriptions, files, session, threads>>

(***************************************************************************)
(* Authorisation checks of the handlers.                                   *)
(***************************************************************************)
\* @login_required
Authenticated == session # Anonymous

\* current_user.role != 'doctor' or appointment.doctor_id != current_user.id
\* faulty variant: any doctor passes
OwnerCheckRoleOnly(uid, a) == RoleOf(uid) # "doctor"

OwnerDenied(uid, a) ==
    RoleOf(uid) # "doctor" \/ appointments[a].doctor_id # uid

\* current_user.role != 'admin'
AdminDenied(uid) == RoleOf(uid) # "admin"

(***************************************************************************)
(* Request handlers, each run to completion.                               *)
(***************************************************************************)
\* POST /register
register(username, password) ==
    LET row == PatientRow(username, password) IN
    /\ Rows < MaxRows \/ UsernameTaken(users, row)
    /\ users' = InsertUser(users, row)
    /\ resp' = <<"register",
                IF UsernameTaken(users, row) THEN "error" ELSE "ok">>
    /\ UNCHANGED <<appointments, prescriptions, files, session, threads>>

\* the id login() passes to login_user, 0 when the credentials are refused
Authenticate(us, username, password) ==
    LET uid == FirstByUsername(us, username) IN
    IF uid # 0 /\ check_password_hash(us[uid].password, password)
    THEN uid ELSE 0

AuthenticateAdmin(us, username, password) ==
    LET uid == FirstAdminByUsername(us, username) IN
    IF uid # 0 /\ check_password_hash(us[uid].password, password)
    THEN uid ELSE 0

\* POST /login
login(username, password) ==
    LET uid == Authenticate(users, username, password) IN
    /\ session' = IF uid # 0 THEN uid ELSE session
    /\ resp' = <<"login", IF uid # 0 THEN "ok" ELSE "invalid">>
    /\ UNCHANGED <<users, appointments, prescriptions, files, threads>>

\* POST /admin_login
admin_login(username, password) ==
    LET uid == AuthenticateAdmin(users, username, password) IN
    /\ session' = IF uid # 0 THEN uid ELSE session
    /\ resp' = <<"admin_login", IF uid # 0 THEN "ok" ELSE "invalid">>
    /\ UNCHANGED <<users, appointments, prescriptions, files, threads>>

logout ==
    /\ IF Authenticated
       THEN session' = Anonymous /\ resp' = <<"logout", "ok">>
       ELSE session' = session /\ resp' = <<"logout", "login_required">>
    /\ UNCHANGED <<users, appointments, prescriptions, files, threads>>

add_doctor(username, password) ==
    /\ IF ~Authenticated
       THEN users' = users /\ resp' = <<"add_doctor", "login_required">>
       ELSE IF AdminDenied(session)
       THEN users' = users /\ resp' = <<"add_doctor", "denied">>
       ELSE LET row == DoctorRow(username, password) IN
            /\ Rows < MaxRows \/ UsernameTaken(users, row)
            /\ users' = InsertUser(users, row)
            /\ resp' = <<"add_doctor",
                        IF UsernameTaken(users, row) THEN "error" ELSE "ok">>
    /\ UNCHANGED <<appointments, prescriptions, files, session, threads>>

book_appointment(doctor_id, time) ==
    /\ IF ~Authenticated
       THEN /\ appointments' = appointments
            /\ resp' = <<"book_appointment", "login_required">>
       ELSE /\ Rows < MaxRows /\ Len(appointments) + 1 \in ApptIds
            /\ appointments' =
                  Append(appointments, AppointmentRow(session, doctor_id, time))
            /\ resp' = <<"book_appointment", "ok">>
    /\ UNCHANGED <<users, prescriptions, files, session, threads>>

\* faulty variant: every other action rejects
NewStatusAlways(old, action) ==
    IF action = "accept" THEN "accepted" ELSE "rejected"

\* lines 184-187: the status the row holds after the action
NewStatus(old, action) ==
    IF action = "accept" THEN "accepted"
    ELSE IF action = "reject" THEN "rejected"
    ELSE old

update_appointment(id, action) ==
    /\ IF ~Authenticated
       THEN /\ appointments' = appointments
            /\ resp' = <<"update_appointment", "login_required">>
       ELSE IF id \notin 1..Len(appointments)
       THEN /\ appointments' = appointments
            /\ resp' = <<"update_appointment", "not_found">>
       ELSE IF OwnerDenied(session, id)
       THEN /\ appointments' = appointments
            /\ resp' = <<"update_appointment", "denied">>
       ELSE /\ appointments' =
                  [appointments EXCEPT
                      ![id].status = NewStatus(appointments[id].status, action)]
            /\ resp' = <<"update_appointment", "ok">>
    /\ UNCHANGED <<users, prescriptions, files, session, threads>>

upload_prescription(method, appointment_id, filename, bytes) ==
    /\ IF ~Authenticated
       THEN /\ resp' = <<"upload_prescription", "login_required">>
            /\ UNCHANGED <<prescriptions, files>>
       ELSE IF appointment_id \notin 1..Len(appointments)
       THEN /\ resp' = <<"upload_prescription", "not_found">>
            /\ UNCHANGED <<prescriptions, files>>
       ELSE IF OwnerDenied(session, appointment_id)
       THEN /\ resp' = <<"upload_prescription", "denied">>
            /\ UNCHANGED <<prescriptions, files>>
       ELSE IF method = "POST" /\ FilePresent(filename)
       THEN /\ Rows < MaxRows /\ Len(prescriptions) + 1 \in PrescIds
            /\ files' =
                  SaveFile(files, StoredName(appointment_id, filename), bytes)
            /\ prescriptions' =
                  Append(prescriptions, PrescriptionRow(appointment_id, filename))
            /\ resp' = <<"upload_prescription", "ok">>
       ELSE /\ resp' = <<"upload_prescription", "ok">>
            /\ UNCHANGED <<prescriptions, files>>
    /\ UNCHANGED <<users, appointments, session, threads>>

\* send_from_directory(UPLOAD_FOLDER, filename): the caller is not consulted.
uploaded_file(caller, filename) ==
    IF filename \in DOMAIN files
    THEN [status |-> 200, body |-> files[filename]]
    ELSE [status |-> 404]

(***************************************************************************)
(* Specification with one request at a time.                               *)
(***************************************************************************)
Next ==
    \/ Restart
    \/ \E u \in Usernames, p \in NewPasswords : register(u, p)
    \/ \E u \in Usernames, p \in Passwords : login(u, p)
    \/ \E u \in Usernames, p \in Passwords : admin_login(u, p)
    \/ logout
    \/ \E u \in Usernames, p \in NewPasswords : add_doctor(u, p)
    \/ \E d \in DoctorIds, t \in Times : book_appointment(d, t)
    \/ \E a \in ApptIds, act \in Actions : update_appointment(a, act)
    \/ \E a \in ApptIds, up \in Uploads :
          upload_prescription(up[1], a, up[2], up[3])

Spec == Init /\ [][Next]_vars

(***************************************************************************)
(* Interleaved handlers.  The development server answers each request on  *)
(* its own thread.  register and add_doctor build their row and then      *)
(* INSERT and commit it; upload_prescription passes its checks, saves the *)
(* file, and then INSERTs and commits the Prescription row.  A thread's   *)
(* record holds what the handler keeps in local variables between steps.  *)
(* The storage engine runs each INSERT-and-commit as one step.            *)
(***************************************************************************)
ConcMaxRows == MaxRows + 1

Busy == Cardinality({t \in Threads : threads[t] # Idle})

Uploading == Cardinality({t \in Threads : threads[t].pc \in {"save", "insert"}})

\* a request is taken by a free worker thread; the threads are alike
Free(t) ==
    /\ threads[t] = Idle
    /\ \A o \in Threads : threads[o] = Idle => t = "t1" \/ o # "t1"

register_begin(t, username, password) ==
    LET row == PatientRow(username, password) IN
    /\ Free(t)
    /\ Rows + Busy < ConcMaxRows \/ UsernameTaken(users, row)
    /\ threads' = [threads EXCEPT ![t] =
          [pc |-> "commit", op |-> "register", row |-> row]]
    /\ UNCHANGED <<users, appointments, prescriptions, files, session, resp>>

add_doctor_begin(t, username, password) ==
    LET row == DoctorRow(username, password) IN
    /\ Free(t)
    /\ IF ~Authenticated
       THEN threads' = threads /\ resp' = <<"add_doctor", "login_required">>
       ELSE IF AdminDenied(session)
       THEN threads' = threads /\ resp' = <<"add_doctor", "denied">>
       ELSE /\ Rows + Busy < ConcMaxRows \/ UsernameTaken(users, row)
            /\ threads' = [threads EXCEPT ![t] =
                  [pc |-> "commit", op |-> "add_doctor", row |-> row]]
            /\ resp' = resp
    /\ UNCHANGED <<users, appointments, prescriptions, files, session>>

\* db.session.add(row); db.session.commit()
commit_user(t) ==
    /\ threads[t].pc = "commit"
    /\ users' = InsertUser(users, threads[t].row)
    /\ resp' = <<threads[t].op,
                 IF UsernameTaken(users, threads[t].row) THEN "error" ELSE "ok">>
    /\ threads' = [threads EXCEPT ![t] = Idle]
    /\ UNCHANGED <<appointments, prescriptions, files, session>>

upload_begin(t, method, appointment_id, filename, bytes) ==
    /\ Free(t)
    /\ IF ~Authenticated
       THEN /\ threads' = threads
            /\ resp' = <<"upload_prescription", "login_required">>
       ELSE IF appointment_id \notin 1..Len(appointments)
       THEN /\ threads' = threads
            /\ resp' = <<"upload_prescription", "not_found">>
       ELSE IF OwnerDenied(session, appointment_id)
       THEN /\ threads' = threads
            /\ resp' = <<"upload_prescription", "denied">>
       ELSE IF method = "POST" /\ FilePresent(filename)
       THEN /\ Rows + Busy < ConcMaxRows
            /\ Len(prescriptions) + Uploading + 1 \in PrescIds
            /\ threads' = [threads EXCEPT ![t] =
                  [pc |-> "save", appointment_id |-> appointment_id,
                   filename |-> filename, bytes |-> bytes]]
            /\ resp' = resp
       ELSE /\ threads' = threads
            /\ resp' = <<"upload_prescription", "ok">>
    /\ UNCHANGED <<users, appointments, prescriptions, files, session>>

\* file.save(filepath)
upload_save(t) ==
    /\ threads[t].pc = "save"
    /\ files' = SaveFile(files,
                  StoredName(threads[t].appointment_id, threads[t].filename),
                  threads[t].bytes)
    /\ threads' = [threads EXCEPT ![t].pc = "insert"]
    /\ UNCHANGED <<users, appointments, prescriptions, session, resp>>

\* db.session.add(new_presc); db.session.commit()
upload_insert(t) ==
    /\ threads[t].pc = "insert"
    /\ prescriptions' =
          Append(prescriptions,
                 PrescriptionRow(threads[t].appointment_id, threads[t].filename))
    /\ resp' = <<"upload_prescription", "ok">>
    /\ threads' = [threads EXCEPT ![t] = Idle]
    /\ UNCHANGED <<users, appointments, files, session>>

\* inputs of the interleaved runs; two uploads in flight need one more row
ConcUsernames == {"admin", "alice"}
ConcDoctorIds == {2}
ConcTimes == {"10:00"}
ConcApptIds == {1}

NextConc ==
    \/ Restart
    \/ \E t \in Threads, u \in ConcUsernames, p \in NewPasswords :
          register_begin(t, u, p)
    \/ \E t \in Threads, u \in ConcUsernames, p \in NewPasswords :
          add_doctor_begin(t, u, p)
    \/ \E t \in Threads : commit_user(t)
    \/ \E u \in ConcUsernames, p \in Passwords : login(u, p)
    \/ \E u \in ConcUsernames, p \in Passwords : admin_login(u, p)
    \/ logout
    \/ \E d \in ConcDoctorIds, t \in ConcTimes : book_appointment(d, t)
    \/ \E a \in ConcApptIds, act \in Actions : update_appointment(a, act)
    \/ \E t \in Threads, a \in ConcApptIds, up \in Uploads :
          upload_begin(t, up[1], a, up[2], up[3])
    \/ \E t \in Threads : upload_save(t)
    \/ \E t \in Threads : upload_insert(t)

SpecConc == Init /\ [][NextConc]_vars

(***************************************************************************)
(* Properties.                                                             *)
(***************************************************************************)
ApptRange == 1..Len(appointments)
UserRange == 1..Len(users)
IsDoctor(uid) == uid \in UserRange /\ users[uid].role = "doctor"
IsPatient(uid) == uid \in UserRange /\ users[uid].role = "patient"

\* C1: once an appointment's status is accepted or rejected it never
\* changes again; the status only moves from pending to accepted or from
\* pending to rejected.
C1_TerminalStatus ==
    [][\A a \in ApptRange :
          appointments[a].status # "pending"
             => appointments'[a].status = appointments[a].status]_vars

\* C2: a request on an appointment by an authenticated caller who is not
\* its assigned doctor is denied and changes no status, Prescription row
\* or stored file; a status changes and a Prescription row or file is
\* written only in a request of the user whose id is the appointment's
\* doctor_id.
NotAssigned(a) ==
    users[session].role # "doctor" \/ appointments[a].doctor_id # session

C2_OnlyAssignedDoctor ==
    [][/\ \A a \in ApptRange :
            appointments'[a].status # appointments[a].status
               => session = appointments[a].doctor_id
       /\ prescriptions' # prescriptions \/ files' # files
            => /\ Len(prescriptions') = Len(prescriptions) + 1
               /\ LET row == prescriptions'[Len(prescriptions')] IN
                  /\ row.appointment_id \in ApptRange
                  /\ session = appointments[row.appointment_id].doctor_id
       /\ \A a \in ApptRange, act \in Actions :
            (/\ Authenticated /\ NotAssigned(a)
             /\ resp'[1] = "update_appointment"
             /\ update_appointment(a, act))
               => /\ resp' = <<"update_appointment", "denied">>
                  /\ UNCHANGED <<appointments, prescriptions, files>>
       /\ \A a \in ApptRange, up \in Uploads :
            (/\ Authenticated /\ NotAssigned(a)
             /\ resp'[1] = "upload_prescription"
             /\ upload_prescription(up[1], a, up[2], up[3]))
               => /\ resp' = <<"upload_prescription", "denied">>
                  /\ UNCHANGED <<appointments, prescriptions, files>>
      ]_vars

\* a doctor other than the assigned one has just been denied, and the
\* appointment of the assigned doctor is still pending
C2_Witness ==
    /\ resp \in {<<"update_appointment", "denied">>,
                 <<"upload_prescription", "denied">>}
    /\ IsDoctor(session)
    /\ \E a \in ApptRange :
          /\ IsDoctor(appointments[a].doctor_id)
          /\ appointments[a].doctor_id # session
          /\ appointments[a].status = "pending"
    /\ \A a \in ApptRange : appointments[a].doctor_id # session
    /\ prescriptions = << >>

\* C3: every appointment's patient_id is the id of a user with role
\* patient, a booking by a doctor or an admin being denied.
C3_OnlyPatientsBook ==
    \A a \in ApptRange : IsPatient(appointments[a].patient_id)

\* C4: a booking by patient p with doctor id d and time t appends exactly
\* one appointment [p, d, t, pending] and leaves the existing appointments,
\* the users and the prescriptions as they were, also when d is no doctor's
\* id and when an appointment with the same d and t exists.
C4_BookAppends ==
    [][\A d \in DoctorIds, t \in Times :
          book_appointment(d, t) /\ IsPatient(session)
             => /\ appointments' =
                      Append(appointments,
                             [patient_id |-> session, doctor_id |-> d,
                              time |-> t, status |-> "pending"])
                /\ resp' = <<"book_appointment", "ok">>
                /\ UNCHANGED <<users, prescriptions, files>>]_vars

\* a patient has booked twice the same time with the same id, which is
\* not a doctor's
C4_Witness ==
    /\ resp = <<"book_appointment", "ok">>
    /\ Len(appointments) = 2
    /\ IsPatient(appointments[2].patient_id)
    /\ appointments[2].doctor_id = appointments[1].doctor_id
    /\ appointments[2].time = appointments[1].time
    /\ appointments[2].time = "11:00"
    /\ ~IsDoctor(appointments[2].doctor_id)

\* C5: the bootstrap on an empty user table leaves exactly one admin,
\* named admin; in every reachable state exactly one admin exists and
\* running the bootstrap again adds no user.
Admins(us) == {i \in 1..Len(us) : us[i].role = "admin"}

C5_OneAdmin ==
    /\ Len(Bootstrapped(<< >>)) = 1
    /\ Bootstrapped(<< >>)[1].username = "admin"
    /\ Bootstrapped(<< >>)[1].role = "admin"
    /\ Cardinality(Admins(users)) = 1
    /\ \A i \in Admins(users) : users[i].username = "admin"
    /\ Bootstrapped(users) = users

\* the process has restarted with patients and doctors registered
C5_Witness ==
    /\ resp = <<"bootstrap", "ok">>
    /\ \E i, j \in UserRange : IsPatient(i) /\ IsDoctor(j)

\* C6: no two User rows share a username; the INSERT of a register or
\* add_doctor request whose username exists is rejected and leaves the
\* user table unchanged, whatever the interleaving of the requests.
C6_UniqueUsernames ==
    /\ [](\A i, j \in UserRange :
             users[i].username = users[j].username => i = j)
    /\ [][\A t \in Threads :
             (commit_user(t)
                /\ \E i \in UserRange :
                      users[i].username = threads[t].row.username)
                => /\ users' = users
                   /\ resp' = <<threads[t].op, "error">>]_vars

\* a request has been rejected for its username and another request whose
\* username is stored already is about to insert
C6_Witness ==
    /\ \E t \in Threads :
          /\ threads[t].pc = "commit"
          /\ threads[t].row.username # "admin"
          /\ \E i \in UserRange : users[i].username = threads[t].row.username
    /\ resp \in {<<"register", "error">>, <<"add_doctor", "error">>}

\* C7: login(u, p) binds the session to user u's id exactly when a user
\* named u exists and p matches its stored password; after register of an
\* unused username u with password p a patient u exists and login(u, p)
\* succeeds; a failed login or admin_login changes neither the session nor
\* any row.
Matches(u, p) ==
    {i \in UserRange :
        users[i].username = u /\ check_password_hash(users[i].password, p)}

C7_Login ==
    [][\A u \in Usernames, p \in Passwords :
          /\ (resp'[1] = "login" /\ login(u, p))
                => /\ Matches(u, p) # {} =>
                         session' \in Matches(u, p) /\ resp' = <<"login", "ok">>
                   /\ Matches(u, p) = {} =>
                         session' = session /\ resp' = <<"login", "invalid">>
                   /\ UNCHANGED <<users, appointments, prescriptions, files>>
          /\ (resp' = <<"admin_login", "invalid">> /\ admin_login(u, p))
                => UNCHANGED <<users, appointments, prescriptions, files,
                               session>>
          /\ (/\ resp'[1] = "register"
              /\ \A i \in UserRange : users[i].username # u
              /\ register(u, p))
                => /\ Len(users') = Len(users) + 1
                   /\ users'[Len(users')].username = u
                   /\ users'[Len(users')].role = "patient"
                   /\ \A q \in Passwords :
                         Authenticate(users', u, q) =
                            IF q = p THEN Len(users') ELSE 0]_vars

\* a registered patient is logged in and a later login attempt has failed
C7_Witness ==
    /\ resp = <<"login", "invalid">>
    /\ IsPatient(session)

C9_UpdateFrame ==
    [][\A id \in ApptIds, act \in Actions :
          update_appointment(id, act)
             => /\ UNCHANGED <<users, prescriptions, files, session>>
                /\ Len(appointments') = Len(appointments)
                /\ \A a \in ApptRange :
                      /\ a # id => appointments'[a] = appointments[a]
                      /\ appointments'[a].patient_id = appointments[a].patient_id
                      /\ appointments'[a].doctor_id = appointments[a].doctor_id
                      /\ appointments'[a].time = appointments[a].time
                /\ (/\ id \in ApptRange
                    /\ IsDoctor(session)
                    /\ appointments[id].doctor_id = session
                    /\ act \notin {"accept", "reject"})
                      => /\ appointments' = appointments
                         /\ resp' = <<"update_appointment", "ok">>]_vars

\* the assigned doctor's last request was an update and every appointment
\* of theirs is still pending: the action was neither accept nor reject
C9_Witness ==
    /\ resp = <<"update_appointment", "ok">>
    /\ IsDoctor(session)
    /\ Len(appointments) = 1
    /\ appointments[1].doctor_id = session
    /\ appointments[1].status = "pending"

\* C10: of two interleaved uploads for the same appointment and file name
\* each can always take its next step; each save replaces the file's bytes
\* with its own, whatever is stored and wherever the other request stands,
\* and each insert adds its row and leaves the file alone: both rows carry
\* the same file_url and the file holds the bytes of the save that ran
\* last, whatever the order of the inserts.
UrlOf(t) == <<threads[t].appointment_id, "_", threads[t].filename>>

C10_LastSaveWins ==
    /\ [](\A t \in Threads :
             /\ threads[t].pc = "save" => ENABLED upload_save(t)
             /\ threads[t].pc = "insert" => ENABLED upload_insert(t))
    /\ [][\A t \in Threads :
             /\ upload_save(t)
                   => /\ UrlOf(t) \in DOMAIN files'
                      /\ files'[UrlOf(t)] = threads[t].bytes
                      /\ prescriptions' = prescriptions
             /\ upload_insert(t)
                   => /\ files' = files
                      /\ prescriptions' =
                            Append(prescriptions,
                                   [appointment_id |-> threads[t].appointment_id,
                                    file_url |-> UrlOf(t)])
                      /\ resp' = <<"upload_prescription", "ok">>]_vars

\* both uploads have saved, the one that saved last has inserted its row
\* first, and the file holds its bytes, not those of the upload whose row
\* is still to come
C10_Witness ==
    \E t \in Threads :
       /\ threads[t].pc = "insert"
       /\ \A o \in Threads \ {t} : threads[o] = Idle
       /\ Len(prescriptions) = 1
       /\ prescriptions[1].file_url = UrlOf(t)
       /\ files[UrlOf(t)] # threads[t].bytes

====
